---- MODULE Spec2Model ----
(***************************************************************************)
(* Model of the generation-to-deployment pipeline of autoai-mcp-builder:    *)
(*   backend/main.py          generate_mcp, delete_mcp (request handlers)   *)
(*   backend/auto_deployer.py AutoDeployer (build, port, run, health, stop) *)
(*   backend/mcp_manager.py   MCPManager (records in MongoDB.mcp_servers)   *)
(*                                                                         *)
(* The server is one asyncio event loop: a handler runs without            *)
(* interruption from one await that really suspends to the next.  Each     *)
(* action below is one such segment of a handler.  generate_mcp suspends   *)
(* for the first time inside _wait_for_health (code generation, image      *)
(* build, port search and container start contain no suspending await),    *)
(* then in archestra.register_mcp_server, in the insert of the record and  *)
(* in the final broadcast.  delete_mcp suspends in the delete of the       *)
(* record.  The container runtime, the lsof probe, the health endpoint,    *)
(* the registration service, the push channel and the database are the     *)
(* environment: their outcomes are chosen nondeterministically.            *)
(***************************************************************************)
EXTENDS Integers, Sequences, FiniteSets

\* ---------------------------------------------------------------- bounds
\* Number of requests (generate or delete) in one behaviour.
MaxTasks == 2
\* Identifiers a request may carry: Ids == 1..NumIds.
NumIds == 2
\* Width of the port range; the code scans range(8001, 9000), 999 ports.
NumPorts == 1

\* Probes of one health wait; the code passes max_retries=10.
MaxRetries == 1

\* Latest reading of the clock in a behaviour of the registry operations.
MaxStamp == 3

\* ------------------------------------------------------ program constants
\* self.next_port = 8001
FirstPort == 8001

\* End (exclusive) of the scanned range: range(self.next_port, 9000).
RangeEnd == FirstPort + NumPorts

Ids == 1..NumIds
Tasks == 1..MaxTasks

VARIABLES
    docker_available,     \* AutoDeployer.docker_available
    next_port,            \* AutoDeployer.next_port
    deployed_containers,  \* AutoDeployer.deployed_containers: id -> info
    containers,           \* the runtime's containers, by container id
    mcp_servers,          \* MongoDB.mcp_servers: the inserted records
    tasks,                \* the requests: position and locals of each
    user_input,           \* IntentParser.parse: its argument
    parsed,               \* IntentParser.parse: what it returned
    templates_dir,        \* CodeGenerator.templates_dir: the files in it
    generate_args,        \* generate_mcp_server: the arguments of each call
    generated             \* generate_mcp_server: what each call returned
                          \* and wrote

\* The parser and the generator called on their own (ClassifySpec,
\* RenderSpec); the pipeline specifications leave these alone.
direct == <<user_input, parsed, templates_dir, generate_args, generated>>

vars == <<docker_available, next_port, deployed_containers, containers,
          mcp_servers, tasks, user_input, parsed, templates_dir,
          generate_args, generated>>

\* parse has not returned yet.
NotParsed == [mcp_type |-> "none"]

\* No call of the parser or of the generator has been made.
NoCall ==
    /\ user_input = <<>>
    /\ parsed = NotParsed
    /\ templates_dir = <<>>
    /\ generate_args = <<>>
    /\ generated = <<>>

\* A request that has not arrived yet.
NoTask ==
    [kind |-> "none", pc |-> "idle", id |-> 0,
     port |-> 0, range_full |-> FALSE, cid |-> 0, retry |-> 0,
     healthy |-> "unknown", deploy |-> "none", status |-> "none",
     result |-> "none", error |-> "none", stop |-> "none",
     unknown |-> FALSE, deleted |-> 0, insert |-> "none",
     emitted |-> "none", message |-> "none", project_dir |-> FALSE,
     polling |-> {}, created_at |-> 0,
     prior |-> "none", success |-> FALSE, modified |-> 0]

Init ==
    /\ docker_available \in BOOLEAN
    /\ next_port = FirstPort
    /\ deployed_containers = <<>>
    /\ containers = <<>>
    /\ mcp_servers = <<>>
    /\ tasks = [t \in Tasks |-> NoTask]
    /\ NoCall

\* ------------------------------------------------------------- the runtime
\* The host port is bound by a running container.
PortAllocated(p) ==
    \E c \in DOMAIN containers : containers[c].running /\ containers[c].port = p

RunningFor(i) ==
    {c \in DOMAIN containers : containers[c].running /\ containers[c].mcp_id = i}

\* Every port of the configured range is bound.
RangeFull == \A p \in FirstPort..(RangeEnd - 1) : PortAllocated(p)

\* ------------------------------------------------- _find_available_port
\* The scan from `port`; `exc` is the port whose probe raises (0: none does).
\* Result: the port returned, the cursor afterwards, and whether the return
\* is the one of the except clause.
RECURSIVE ScanFrom(_, _)
ScanFrom(port, exc) ==
    IF port >= RangeEnd
      THEN [port |-> next_port, next_port |-> next_port, raised |-> FALSE]
    ELSE IF port = exc
      THEN [port |-> port, next_port |-> next_port, raised |-> TRUE]
    ELSE IF ~PortAllocated(port)
      THEN [port |-> port, next_port |-> port + 1, raised |-> FALSE]
    ELSE ScanFrom(port + 1, exc)

_find_available_port(exc) == ScanFrom(next_port, exc)

\* The probes that may raise: one of the scanned ports, or none.
ExcChoices == {0} \cup (FirstPort..(RangeEnd - 1))

\* ------------------------------------------------------------ generate_mcp
\* The ids requests have carried so far.
UsedIds == {tasks[t].id : t \in {u \in Tasks : tasks[u].kind # "none"}}

\* Request t arrives and carries id i.  Requests arrive in index order.  Ids
\* are opaque names (prefixes of uuid4 values), so only the pattern of equal
\* and different ids matters: a request carries an id seen before or the
\* first id not seen yet.
Arrives(t, i) ==
    /\ tasks[t].kind = "none"
    /\ IF t = 1 THEN TRUE ELSE tasks[t - 1].kind # "none"
    /\ \A j \in Ids : j < i => j \in UsedIds

\* progress_callback(m) as generate_mcp and the code generator call it.  It
\* is a coroutine function: its body (generation_tasks[task_id]["message"] =
\* m, then the broadcast of the generation_progress event) runs only when the
\* call is awaited.  `emitted` keeps the argument of the last call.
progress_callback(task, m, awaited) ==
    [task EXCEPT !.emitted = m, !.message = IF awaited THEN m ELSE @]

\* The request up to the call of generate_mcp_server; no call of
\* progress_callback is awaited.
NewGen(i) ==
    progress_callback(
        [NoTask EXCEPT !.kind = "gen", !.id = i, !.status = "generating"],
        "Generating code...", FALSE)

\* The request at the call of deploy_mcp_server.
\* generate_mcp_server has returned success: the directory made by
\* tempfile.mkdtemp holds the generated files.
Deploying(i) ==
    progress_callback([NewGen(i) EXCEPT !.project_dir = TRUE],
                      "Deploying to Docker...", FALSE)

\* generate_mcp_server returned success False (template not found, or an
\* exception): generate_mcp returns failed.  The directory exists unless
\* mkdtemp itself raised.
GenerateFailed(t, i) ==
    /\ Arrives(t, i)
    /\ \E dir \in BOOLEAN :
          tasks' = [tasks EXCEPT ![t] =
              [progress_callback(NewGen(i), "Generation failed", FALSE)
                  EXCEPT !.pc = "done", !.result = "failed",
                         !.error = "generate", !.project_dir = dir]]
    /\ UNCHANGED <<direct, docker_available, next_port, deployed_containers,
                   containers, mcp_servers>>

\* deploy_mcp_server: Docker is not available.
DockerUnavailable(t, i) ==
    /\ Arrives(t, i)
    /\ ~docker_available
    /\ tasks' = [tasks EXCEPT ![t] =
          [Deploying(i) EXCEPT !.pc = "done",
                            !.deploy = "failed",
                            !.result = "failed", !.error = "docker"]]
    /\ UNCHANGED <<direct, docker_available, next_port, deployed_containers,
                   containers, mcp_servers>>

\* The task after the build and the port search.
Leased(i, exc) ==
    [Deploying(i) EXCEPT !.port = _find_available_port(exc).port,
                      !.range_full = RangeFull]

\* Mutant of BuildFailed: the port is searched before the image is built, and
\* the build failure returns with the port taken.
BuildFailed_PortFirst(t, i) ==
    /\ Arrives(t, i)
    /\ docker_available
    /\ next_port' = _find_available_port(0).next_port
    /\ tasks' = [tasks EXCEPT ![t] =
          [Leased(i, 0) EXCEPT !.pc = "done", !.deploy = "failed",
                               !.result = "failed", !.error = "build"]]
    /\ UNCHANGED <<direct, docker_available, deployed_containers, containers,
                   mcp_servers>>

\* deploy_mcp_server: images.build raised.
BuildFailed(t, i) ==
    /\ Arrives(t, i)
    /\ docker_available
    /\ tasks' = [tasks EXCEPT ![t] =
          [Deploying(i) EXCEPT !.pc = "done",
                            !.deploy = "failed",
                            !.result = "failed", !.error = "build"]]
    /\ UNCHANGED <<direct, docker_available, next_port, deployed_containers,
                   containers, mcp_servers>>

\* Mutant of RunFailed: the exception of containers.run is swallowed and the
\* deploy goes on to the health wait with the port it was given.
RunFailed_Swallowed(t, i, exc) ==
    /\ Arrives(t, i)
    /\ docker_available
    /\ next_port' = _find_available_port(exc).next_port
    /\ tasks' = [tasks EXCEPT ![t] = [Leased(i, exc) EXCEPT !.pc = "health"]]
    /\ UNCHANGED <<direct, docker_available, deployed_containers, containers,
                   mcp_servers>>

\* Mutant of RunFailed: generate_mcp does not look at the success of the
\* deployment result and goes on to the registration.
RunFailed_Proceeds(t, i, exc) ==
    /\ Arrives(t, i)
    /\ docker_available
    /\ next_port' = _find_available_port(exc).next_port
    /\ tasks' = [tasks EXCEPT ![t] =
          [Leased(i, exc) EXCEPT !.pc = "register", !.deploy = "failed",
                                 !.error = "run"]]
    /\ UNCHANGED <<direct, docker_available, deployed_containers, containers,
                   mcp_servers>>

\* deploy_mcp_server: containers.run raised.  It always raises when the host
\* port is already bound; it may raise for any other reason.
RunFailed(t, i, exc) ==
    /\ Arrives(t, i)
    /\ docker_available
    /\ next_port' = _find_available_port(exc).next_port
    /\ tasks' = [tasks EXCEPT ![t] =
          [Leased(i, exc) EXCEPT !.pc = "done", !.deploy = "failed",
                                 !.result = "failed", !.error = "run"]]
    /\ UNCHANGED <<direct, docker_available, deployed_containers, containers,
                   mcp_servers>>

\* The container the run starts.
Started(t, i, p) == [mcp_id |-> i, port |-> p, running |-> TRUE, task |-> t]

\* deploy_mcp_server: the container started; the handler is suspended in the
\* first probe of _wait_for_health.
ContainerStarted(t, i, exc) ==
    /\ Arrives(t, i)
    /\ docker_available
    /\ ~PortAllocated(_find_available_port(exc).port)
    /\ next_port' = _find_available_port(exc).next_port
    /\ containers' = Append(containers, Started(t, i, _find_available_port(exc).port))
    /\ tasks' = [tasks EXCEPT ![t] =
          [Leased(i, exc) EXCEPT !.pc = "health",
                                 !.cid = Len(containers) + 1]]
    /\ UNCHANGED <<direct, docker_available, deployed_containers, mcp_servers>>

\* deploy_mcp_server: the container started and then an exception reached the
\* outer handler (the imports at the head of _wait_for_health raise).
DeployRaised(t, i, exc) ==
    /\ Arrives(t, i)
    /\ docker_available
    /\ ~PortAllocated(_find_available_port(exc).port)
    /\ next_port' = _find_available_port(exc).next_port
    /\ containers' = Append(containers, Started(t, i, _find_available_port(exc).port))
    /\ tasks' = [tasks EXCEPT ![t] =
          [Leased(i, exc) EXCEPT !.pc = "done",
                                 !.cid = Len(containers) + 1,
                                 !.deploy = "failed",
                                 !.result = "failed", !.error = "deploy"]]
    /\ UNCHANGED <<direct, docker_available, deployed_containers, mcp_servers>>

\* ------------------------------------------------------- _wait_for_health
InHealth(t) == tasks[t].kind = "gen" /\ tasks[t].pc = "health"

\* deployed_containers[mcp_id] = {...}: the entry the deploy stores.
Entry(t) == [container_id |-> tasks[t].cid, port |-> tasks[t].port]

StoreEntry(t) ==
    [j \in DOMAIN deployed_containers \cup {tasks[t].id} |->
        IF j = tasks[t].id THEN Entry(t) ELSE deployed_containers[j]]

\* The rest of deploy_mcp_server after _wait_for_health returned `h`: the
\* returned value is not looked at, the entry is stored and success is
\* returned; generate_mcp goes on to the registration and suspends there.
DeployReturned(t, h) ==
    /\ deployed_containers' = StoreEntry(t)
    /\ tasks' = [tasks EXCEPT ![t] =
          progress_callback(
              [@ EXCEPT !.pc = "register", !.retry = 0,
                        !.healthy = h, !.deploy = "success"],
              "Registering with Archestra...", FALSE)]
    /\ UNCHANGED <<direct, docker_available, next_port, containers, mcp_servers>>

\* A probe answered 200: _wait_for_health returns True.
ProbeOK(t) ==
    /\ InHealth(t)
    /\ tasks[t].retry < MaxRetries
    /\ DeployReturned(t, "yes")

\* Mutant of ProbeFailed: a probe that fails ends the wait at once,
\* _wait_for_health returns False.
ProbeFailed_Unhealthy(t) ==
    /\ InHealth(t)
    /\ tasks[t].retry < MaxRetries
    /\ DeployReturned(t, "no")

\* A probe answered something else or raised; the handler sleeps.
ProbeFailed(t) ==
    /\ InHealth(t)
    /\ tasks[t].retry < MaxRetries
    /\ tasks' = [tasks EXCEPT ![t].retry = @ + 1]
    /\ UNCHANGED <<direct, docker_available, next_port, deployed_containers,
                   containers, mcp_servers>>

\* Mutant of HealthTimedOut: when the loop is over the deploy runs the image
\* again and waits for the new container.
HealthTimedOut_Redeploys(t) ==
    /\ InHealth(t)
    /\ tasks[t].retry = MaxRetries
    /\ Len(containers) <= MaxTasks
    /\ containers' =
         Append(containers, Started(t, tasks[t].id, tasks[t].port))
    /\ tasks' = [tasks EXCEPT ![t].retry = 0,
                              ![t].cid = Len(containers) + 1]
    /\ UNCHANGED <<direct, docker_available, next_port, deployed_containers,
                   mcp_servers>>

\* The loop is over: _wait_for_health returns False.
HealthTimedOut(t) ==
    /\ InHealth(t)
    /\ tasks[t].retry = MaxRetries
    /\ DeployReturned(t, "no")

\* ----------------------------------------------------------- cancellation
\* The task is cancelled while it awaits client.get: the bare except around
\* the probe swallows the CancelledError and the loop goes on to its sleep.
CancelInProbe(t) ==
    /\ InHealth(t)
    /\ tasks[t].retry < MaxRetries
    /\ tasks' = [tasks EXCEPT ![t].retry = @ + 1]
    /\ UNCHANGED <<direct, docker_available, next_port, deployed_containers,
                   containers, mcp_servers>>

\* What a CancelledError that leaves generate_mcp does: no handler catches it
\* (it is no Exception), so nothing else runs.
Abandoned(t) ==
    [tasks EXCEPT ![t].pc = "cancelled", ![t].retry = 0,
                  ![t].healthy = "unknown", ![t].created_at = 0]

\* The task is cancelled while it awaits asyncio.sleep(1) after a failed probe.
CancelInSleep(t) ==
    /\ InHealth(t)
    /\ tasks[t].retry > 0
    /\ tasks' = Abandoned(t)
    /\ UNCHANGED <<direct, docker_available, next_port, deployed_containers,
                   containers, mcp_servers>>

\* The task is cancelled in one of the awaits after the deploy.
CancelAfterDeploy(t) ==
    /\ tasks[t].kind = "gen"
    /\ tasks[t].pc \in {"register", "record", "broadcast"}
    /\ tasks' = Abandoned(t)
    /\ UNCHANGED <<direct, docker_available, next_port, deployed_containers,
                   containers, mcp_servers>>

\* -------------------------------------------- generate_mcp after the deploy
\* The latest time held by a record or by a record being inserted.
Now ==
    LET seen == {0} \cup {tasks[u].created_at : u \in Tasks}
                    \cup {mcp_servers[k].created_at : k \in DOMAIN mcp_servers}
                    \cup {mcp_servers[k].last_accessed : k \in DOMAIN mcp_servers}
    IN  CHOOSE m \in seen : \A n \in seen : n <= m

\* datetime.utcnow() as the collection keeps it: not before any value read
\* earlier, and equal to the latest one when both fall into one millisecond.
utcnow == {Now, Now + 1} \ {0}

\* await archestra.register_mcp_server(...): returns, or raises into the
\* handler's except Exception.  When it returns, create_mcp_record is entered
\* and builds its record (created_at = datetime.utcnow()) before it suspends
\* in insert_one.
Register(t, ok) ==
    /\ tasks[t].kind = "gen" /\ tasks[t].pc = "register"
    /\ \E now \in utcnow : tasks' = IF ok
         THEN [tasks EXCEPT ![t] =
                 progress_callback(
                     [@ EXCEPT !.pc = "record", !.healthy = "unknown",
                               !.created_at = now],
                     "Generation complete!", FALSE)]
         ELSE [tasks EXCEPT ![t].pc = "done", ![t].healthy = "unknown",
                            ![t].status = "failed",
                            ![t].result = "failed", ![t].error = "register"]
    /\ UNCHANGED <<direct, docker_available, next_port, deployed_containers,
                   containers, mcp_servers>>

\* The record create_mcp_record builds: status "active", created_at and
\* last_accessed read one after the other (taken as one instant), the
\* analytics counters at 0 and no last_response_time yet (0).
record(i, port, now, t) ==
    [mcp_id |-> i, port |-> port, status |-> "active",
     created_at |-> now, last_accessed |-> now,
     calls |-> 0, errors |-> 0, last_response_time |-> 0, task |-> t]

\* The record create_mcp_record inserts.
Record(t) == record(tasks[t].id, tasks[t].port, tasks[t].created_at, t)

\* await mcp_manager.create_mcp_record(...): insert_one succeeds, or raises
\* and create_mcp_record returns success False, which generate_mcp does not
\* look at (`insert` keeps it).  Then the task is marked completed and the
\* broadcast awaited.
CreateRecord(t, ok) ==
    /\ tasks[t].kind = "gen" /\ tasks[t].pc = "record"
    /\ mcp_servers' = IF ok THEN Append(mcp_servers, Record(t)) ELSE mcp_servers
    /\ tasks' = [tasks EXCEPT ![t].pc = "broadcast", ![t].status = "completed",
                              ![t].insert = IF ok THEN "ok" ELSE "failed",
                              ![t].created_at = 0]
    /\ UNCHANGED <<direct, docker_available, next_port, deployed_containers, containers>>

\* await broadcaster.manager.broadcast(...): returns and generate_mcp returns
\* success, or raises into the handler's except Exception.
Broadcast(t, ok) ==
    /\ tasks[t].kind = "gen" /\ tasks[t].pc = "broadcast"
    /\ tasks' = IF ok
         THEN [tasks EXCEPT ![t].pc = "done", ![t].result = "success"]
         ELSE [tasks EXCEPT ![t].pc = "done", ![t].status = "failed",
                            ![t].result = "failed", ![t].error = "broadcast"]
    /\ UNCHANGED <<direct, docker_available, next_port, deployed_containers,
                   containers, mcp_servers>>

\* -------------------------------------------------------------- delete_mcp
HasRecord(i) == \E k \in DOMAIN mcp_servers : mcp_servers[k].mcp_id = i

\* The id is known nowhere: no entry, no record, no container.
Unknown(i) ==
    /\ i \notin DOMAIN deployed_containers
    /\ ~HasRecord(i)
    /\ \A c \in DOMAIN containers : containers[c].mcp_id # i

\* del self.deployed_containers[mcp_id]
DelEntry(i) == [j \in DOMAIN deployed_containers \ {i} |-> deployed_containers[j]]

\* container.stop()
Stopped(c) == [containers EXCEPT ![c].running = FALSE]

\* The deploys of id i that are suspended in their health wait.
Polling(i) == {u \in Tasks : InHealth(u) /\ tasks[u].id = i}

\* A delete request of id i: `unknown` and `polling` keep what held when it
\* arrived.
NewDel(i) ==
    [NoTask EXCEPT !.kind = "del", !.id = i, !.pc = "dbdelete",
                   !.unknown = Unknown(i), !.polling = Polling(i)]

\* stop_mcp_server: the id is not in deployed_containers.  delete_mcp does not
\* look at the result and goes on to delete the record.
DeleteNotDeployed(t, i) ==
    /\ Arrives(t, i)
    /\ i \notin DOMAIN deployed_containers
    /\ tasks' = [tasks EXCEPT ![t] = [NewDel(i) EXCEPT !.stop = "notfound"]]
    /\ UNCHANGED <<direct, docker_available, next_port, deployed_containers,
                   containers, mcp_servers>>

\* stop_mcp_server: the container is stopped and the entry removed.
DeleteStopped(t, i) ==
    /\ Arrives(t, i)
    /\ i \in DOMAIN deployed_containers
    /\ containers' = Stopped(deployed_containers[i].container_id)
    /\ deployed_containers' = DelEntry(i)
    /\ tasks' = [tasks EXCEPT ![t] = [NewDel(i) EXCEPT !.stop = "ok"]]
    /\ UNCHANGED <<direct, docker_available, next_port, mcp_servers>>

\* Mutant of DeleteStopFailed: the entry is removed before the container is
\* stopped, and stays removed when the stop raises.
DeleteStopFailed_Forgets(t, i) ==
    /\ Arrives(t, i)
    /\ i \in DOMAIN deployed_containers
    /\ deployed_containers' = DelEntry(i)
    /\ tasks' = [tasks EXCEPT ![t] = [NewDel(i) EXCEPT !.stop = "error"]]
    /\ UNCHANGED <<direct, docker_available, next_port, containers,
                   mcp_servers>>

\* stop_mcp_server: containers.get or container.stop raised; the entry stays
\* and the container keeps running.
DeleteStopFailed(t, i) ==
    /\ Arrives(t, i)
    /\ i \in DOMAIN deployed_containers
    /\ tasks' = [tasks EXCEPT ![t] = [NewDel(i) EXCEPT !.stop = "error"]]
    /\ UNCHANGED <<direct, docker_available, next_port, deployed_containers,
                   containers, mcp_servers>>

\* delete_one({"mcp_id": i}): the collection without the first match.
RECURSIVE WithoutFirst(_, _)
WithoutFirst(s, i) ==
    IF s = <<>> THEN <<>>
    ELSE IF Head(s).mcp_id = i THEN Tail(s)
    ELSE <<Head(s)>> \o WithoutFirst(Tail(s), i)

\* MCPManager.delete_mcp: delete_one succeeds (success True, deleted 0 or 1)
\* or raises (success False); delete_mcp returns that result.
DeleteRecord(t, ok) ==
    /\ tasks[t].kind = "del" /\ tasks[t].pc = "dbdelete"
    /\ mcp_servers' = IF ok THEN WithoutFirst(mcp_servers, tasks[t].id)
                            ELSE mcp_servers
    /\ tasks' = [tasks EXCEPT
          ![t].pc = "done",
          ![t].result = IF ok THEN "success" ELSE "failed",
          ![t].error = IF ok THEN "none" ELSE "db",
          ![t].deleted = IF ok /\ HasRecord(tasks[t].id) THEN 1 ELSE 0]
    /\ UNCHANGED <<direct, docker_available, next_port, deployed_containers, containers>>

\* ------------------------------------------------- what generate_mcp returns
\* The text under "error" of a failure response, by the return that built it:
\* a fixed text, a fixed prefix before str(e), or str(e) alone.
ErrorText(e) ==
    CASE e = "generate" -> "Template not found | str(e)"
      [] e = "docker"   -> "Docker is not available"
      [] e = "build"    -> "Docker build failed: str(e)"
      [] e = "run"      -> "Container run failed: str(e)"
      [] OTHER          -> "str(e)"

\* The dict generate_mcp returned to the caller of request t.
Response(t) ==
    IF tasks[t].result = "failed"
      THEN [status |-> "failed", task_id |-> t,
            error |-> ErrorText(tasks[t].error)]
    ELSE IF tasks[t].result = "success"
      THEN [status |-> "success", task_id |-> t, mcp_id |-> tasks[t].id,
            port |-> tasks[t].port]
    ELSE [status |-> "none"]

\* -------------------------------------------------------------- list_mcps
\* How the sort orders documents of equal key: MongoDB leaves it open.
Ties == {"first", "last"}

\* cursor.sort("created_at", direction): direction -1 is descending, 1 is
\* ascending; `tie` tells which of the documents of equal key comes first.
RECURSIVE sort(_, _, _)
sort(s, direction, tie) ==
    IF s = <<>> THEN <<>>
    ELSE LET top == {k \in DOMAIN s : \A j \in DOMAIN s :
                        IF direction = -1
                          THEN s[j].created_at <= s[k].created_at
                          ELSE s[j].created_at >= s[k].created_at}
             k == IF tie = "first"
                    THEN CHOOSE a \in top : \A b \in top : a <= b
                    ELSE CHOOSE a \in top : \A b \in top : a >= b
             rest == [j \in 1..(Len(s) - 1) |-> IF j < k THEN s[j] ELSE s[j + 1]]
         IN  <<s[k]>> \o sort(rest, direction, tie)

\* Mutant of list_mcps: the sort is ascending.
list_mcps_Ascending(ok, tie) ==
    IF ok THEN sort(mcp_servers, 1, tie) ELSE <<>>

\* MCPManager.list_mcps: find().sort("created_at", -1).to_list(), or [] when
\* the query raises.
list_mcps(ok, tie) ==
    IF ok THEN sort(mcp_servers, -1, tie) ELSE <<>>

\* GET /api/mcps: the response of the handler.
ListResponse(ok, tie) ==
    LET mcps == list_mcps(ok, tie)
    IN  [status |-> "success", total |-> Len(mcps),
         mcps |-> [j \in DOMAIN mcps |->
                     [mcp_id |-> mcps[j].mcp_id, status |-> mcps[j].status,
                      created_at |-> mcps[j].created_at]]]

\* ------------------------------------------------------------ specification
Next ==
    \/ \E t \in Tasks, i \in Ids : GenerateFailed(t, i)
    \/ \E t \in Tasks, i \in Ids : DockerUnavailable(t, i)
    \/ \E t \in Tasks, i \in Ids : BuildFailed(t, i)
    \/ \E t \in Tasks, i \in Ids, e \in ExcChoices : RunFailed(t, i, e)
    \/ \E t \in Tasks, i \in Ids, e \in ExcChoices : ContainerStarted(t, i, e)
    \/ \E t \in Tasks, i \in Ids, e \in ExcChoices : DeployRaised(t, i, e)
    \/ \E t \in Tasks : ProbeOK(t)
    \/ \E t \in Tasks : ProbeFailed(t)
    \/ \E t \in Tasks : HealthTimedOut(t)
    \/ \E t \in Tasks : CancelInProbe(t)
    \/ \E t \in Tasks : CancelInSleep(t)
    \/ \E t \in Tasks : CancelAfterDeploy(t)
    \/ \E t \in Tasks, ok \in BOOLEAN : Register(t, ok)
    \/ \E t \in Tasks, ok \in BOOLEAN : CreateRecord(t, ok)
    \/ \E t \in Tasks, ok \in BOOLEAN : Broadcast(t, ok)
    \/ \E t \in Tasks, i \in Ids : DeleteNotDeployed(t, i)
    \/ \E t \in Tasks, i \in Ids : DeleteStopped(t, i)
    \/ \E t \in Tasks, i \in Ids : DeleteStopFailed(t, i)
    \/ \E t \in Tasks, ok \in BOOLEAN : DeleteRecord(t, ok)

Spec == Init /\ [][Next]_vars

\* ============================================== MCPManager, called directly
\* update_mcp_status and track_call are methods of MCPManager that no request
\* handler calls; RegistrySpec calls them, in any order and interleaving, on
\* a collection that holds the records of earlier deployments.  A call is a
\* request of `tasks`; update_mcp_status is suspended in update_one between
\* its call and the moment the database applies it.

\* update_one({"mcp_id": i}, ...): the document it matches, the first of the
\* id, or 0 when none has the id.
Match(s, i) ==
    IF \E k \in DOMAIN s : s[k].mcp_id = i
      THEN CHOOSE k \in DOMAIN s :
              /\ s[k].mcp_id = i
              /\ \A j \in DOMAIN s : j < k => s[j].mcp_id # i
      ELSE 0

\* Mutant of track_call: a failed call is counted as a call too.
track_call_CountsAll(s, i, response_time, success) ==
    IF Match(s, i) = 0 THEN s
    ELSE IF success
      THEN [s EXCEPT ![Match(s, i)].calls = @ + 1,
                     ![Match(s, i)].last_response_time = response_time]
      ELSE [s EXCEPT ![Match(s, i)].calls = @ + 1,
                     ![Match(s, i)].errors = @ + 1]

\* track_call: {"$inc": {"analytics.calls": 1}, "$set":
\* {"analytics.last_response_time": response_time}} for a successful call,
\* {"$inc": {"analytics.errors": 1}} for a failed one.
track_call(s, i, response_time, success) ==
    IF Match(s, i) = 0 THEN s
    ELSE IF success
      THEN [s EXCEPT ![Match(s, i)].calls = @ + 1,
                     ![Match(s, i)].last_response_time = response_time]
      ELSE [s EXCEPT ![Match(s, i)].errors = @ + 1]

\* update_mcp_status: {"$set": {"status": status, "last_accessed": now}} on
\* the document of the id, whatever its status is.
update_mcp_status(s, i, status, now) ==
    IF Match(s, i) = 0 THEN s
    ELSE [s EXCEPT ![Match(s, i)].status = status,
                   ![Match(s, i)].last_accessed = now]

\* The values callers pass as status and as response_time.
Statuses == {"active", "stopped", "failed"}
ResponseTimes == {1, 2}

\* The collections the calls start from: empty, or the records of earlier
\* deployments of different ids.
StoredCollections ==
    {<<>>, <<record(1, FirstPort, 1, 0)>>,
     <<record(1, FirstPort, 1, 0), record(2, FirstPort + 1, 2, 0)>>}

RegistryInit ==
    /\ docker_available = TRUE
    /\ next_port = FirstPort
    /\ deployed_containers = <<>>
    /\ containers = <<>>
    /\ mcp_servers \in StoredCollections
    /\ tasks = [t \in Tasks |-> NoTask]
    /\ NoCall

\* Call t is the next one to be made.
Free(t) ==
    /\ tasks[t].kind = "none"
    /\ IF t = 1 THEN TRUE ELSE tasks[t - 1].kind # "none"

\* The status of the record of id i as a caller sees it before it calls.
StatusOf(i) ==
    IF Match(mcp_servers, i) = 0 THEN "none"
    ELSE mcp_servers[Match(mcp_servers, i)].status

\* track_call(i, response_time, success): the update is applied, or update_one
\* raises and the bare except passes.  It returns None either way.
TrackCall(t, i, response_time, success, ok) ==
    /\ Free(t)
    /\ mcp_servers' = IF ok
          THEN track_call(mcp_servers, i, response_time, success)
          ELSE mcp_servers
    /\ tasks' = [tasks EXCEPT ![t] =
          [NoTask EXCEPT !.kind = "track", !.id = i, !.pc = "done",
                         !.success = success,
                         !.error = IF ok THEN "none" ELSE "db"]]
    /\ UNCHANGED <<direct, docker_available, next_port, deployed_containers, containers>>

\* update_mcp_status(i, status) is called and suspends in update_one; `prior`
\* keeps the status the record has at the call.
UpdateStatusCalled(t, i, status) ==
    /\ Free(t)
    /\ tasks' = [tasks EXCEPT ![t] =
          [NoTask EXCEPT !.kind = "upd", !.id = i, !.pc = "update_one",
                         !.status = status, !.prior = StatusOf(i)]]
    /\ UNCHANGED <<direct, docker_available, next_port, deployed_containers,
                   containers, mcp_servers>>

\* update_one is applied and update_mcp_status returns success True with the
\* modified count, or it raises and success False is returned.
UpdateStatusApplied(t, ok) ==
    /\ tasks[t].kind = "upd" /\ tasks[t].pc = "update_one"
    /\ \E now \in utcnow :
          /\ now <= MaxStamp
          /\ mcp_servers' = IF ok
                THEN update_mcp_status(mcp_servers, tasks[t].id,
                                       tasks[t].status, now)
                ELSE mcp_servers
    /\ tasks' = [tasks EXCEPT
          ![t].pc = "done",
          ![t].result = IF ok THEN "success" ELSE "failed",
          ![t].error = IF ok THEN "none" ELSE "db",
          ![t].modified = IF mcp_servers' # mcp_servers THEN 1 ELSE 0]
    /\ UNCHANGED <<direct, docker_available, next_port, deployed_containers, containers>>

RegistryNext ==
    \/ \E t \in Tasks, i \in Ids, r \in ResponseTimes, su \in BOOLEAN,
          ok \in BOOLEAN : TrackCall(t, i, r, su, ok)
    \/ \E t \in Tasks, i \in Ids, st \in Statuses : UpdateStatusCalled(t, i, st)
    \/ \E t \in Tasks, ok \in BOOLEAN : UpdateStatusApplied(t, ok)

RegistrySpec == RegistryInit /\ [][RegistryNext]_vars

\* ================================================ IntentParser, called directly
\* A text is the sequence of its characters, so that `keyword in text` and
\* str.lower() are computed and not assumed.  ClassifySpec draws the input of
\* parse from Texts and applies parse to it.

\* Words of an input drawn from the vocabulary.
MaxWords == 2

\* "Lower confidence for custom": 0.6.  Confidences are in hundredths.
GenericConfidence == 60

Upper ==
    <<"A", "B", "C", "D", "E", "F", "G", "H", "I", "J", "K", "L", "M",
      "N", "O", "P", "Q", "R", "S", "T", "U", "V", "W", "X", "Y", "Z">>
Lower ==
    <<"a", "b", "c", "d", "e", "f", "g", "h", "i", "j", "k", "l", "m",
      "n", "o", "p", "q", "r", "s", "t", "u", "v", "w", "x", "y", "z">>

\* str.lower(), on the letters A..Z.
lower(text) ==
    [k \in DOMAIN text |->
        IF \E u \in DOMAIN Upper : Upper[u] = text[k]
          THEN Lower[CHOOSE u \in DOMAIN Upper : Upper[u] = text[k]]
          ELSE text[k]]

\* str.title() on lower-case words separated by blanks.
title(text) ==
    [k \in DOMAIN text |->
        IF (IF k = 1 THEN TRUE ELSE text[k - 1] = " ")
              /\ \E u \in DOMAIN Lower : Lower[u] = text[k]
          THEN Upper[CHOOSE u \in DOMAIN Lower : Lower[u] = text[k]]
          ELSE text[k]]

\* keyword in text: the keyword is a substring of the text.
In(keyword, text) ==
    \E k \in 0..(Len(text) - Len(keyword)) :
        SubSeq(text, k + 1, k + Len(keyword)) = keyword

\* self.type_keywords, one keyword per line, each as its characters.
type_keywords ==
    [database |->
        <<<<"d", "a", "t", "a", "b", "a", "s", "e">>,
          <<"q", "u", "e", "r", "y">>,
          <<"s", "q", "l">>,
          <<"m", "o", "n", "g", "o", "d", "b">>,
          <<"p", "o", "s", "t", "g", "r", "e", "s">>,
          <<"m", "y", "s", "q", "l">>,
          <<"e", "l", "a", "s", "t", "i", "c", "s", "e", "a", "r", "c", "h">>,
          <<"r", "e", "d", "i", "s">>,
          <<"c", "a", "s", "s", "a", "n", "d", "r", "a">>,
          <<"s", "c", "h", "e", "m", "a">>,
          <<"t", "a", "b", "l", "e">>,
          <<"i", "n", "d", "e", "x">>,
          <<"o", "p", "t", "i", "m", "i", "z", "e">>>>,
     api |->
        <<<<"a", "p", "i">>,
          <<"h", "t", "t", "p">>,
          <<"e", "n", "d", "p", "o", "i", "n", "t">>,
          <<"r", "e", "s", "t">>,
          <<"g", "r", "a", "p", "h", "q", "l">>,
          <<"r", "e", "s", "p", "o", "n", "s", "e">>,
          <<"r", "e", "q", "u", "e", "s", "t">>,
          <<"s", "t", "a", "t", "u", "s">>,
          <<"l", "a", "t", "e", "n", "c", "y">>,
          <<"p", "e", "r", "f", "o", "r", "m", "a", "n", "c", "e">>,
          <<"m", "o", "n", "i", "t", "o", "r", "i", "n", "g">>,
          <<"h", "e", "a", "l", "t", "h">>>>,
     logs |->
        <<<<"l", "o", "g", "s">>,
          <<"l", "o", "g", "g", "i", "n", "g">>,
          <<"e", "r", "r", "o", "r">>,
          <<"t", "r", "a", "c", "e">>,
          <<"d", "e", "b", "u", "g">>,
          <<"e", "v", "e", "n", "t">>,
          <<"m", "o", "n", "i", "t", "o", "r", "i", "n", "g">>,
          <<"t", "r", "a", "c", "k", "i", "n", "g">>,
          <<"a", "u", "d", "i", "t">>,
          <<"s", "y", "s", "l", "o", "g">>,
          <<"a", "p", "p", "l", "i", "c", "a", "t", "i", "o", "n", " ", "l", "o", "g">>>>,
     security |->
        <<<<"s", "e", "c", "u", "r", "i", "t", "y">>,
          <<"v", "u", "l", "n", "e", "r", "a", "b", "i", "l", "i", "t", "y">>,
          <<"e", "x", "p", "l", "o", "i", "t">>,
          <<"a", "u", "t", "h">>,
          <<"p", "a", "s", "s", "w", "o", "r", "d">>,
          <<"e", "n", "c", "r", "y", "p", "t", "i", "o", "n">>,
          <<"s", "s", "l">>,
          <<"t", "l", "s">>,
          <<"a", "t", "t", "a", "c", "k">>,
          <<"t", "h", "r", "e", "a", "t">>,
          <<"m", "a", "l", "w", "a", "r", "e">>,
          <<"i", "n", "t", "r", "u", "s", "i", "o", "n">>>>,
     performance |->
        <<<<"p", "e", "r", "f", "o", "r", "m", "a", "n", "c", "e">>,
          <<"s", "p", "e", "e", "d">>,
          <<"o", "p", "t", "i", "m", "i", "z", "e">>,
          <<"b", "o", "t", "t", "l", "e", "n", "e", "c", "k">>,
          <<"p", "r", "o", "f", "i", "l", "e">>,
          <<"b", "e", "n", "c", "h", "m", "a", "r", "k">>,
          <<"l", "a", "t", "e", "n", "c", "y">>,
          <<"t", "h", "r", "o", "u", "g", "h", "p", "u", "t">>,
          <<"m", "e", "m", "o", "r", "y">>,
          <<"c", "p", "u">>,
          <<"c", "a", "c", "h", "e">>,
          <<"e", "f", "f", "i", "c", "i", "e", "n", "c", "y">>>>]

\* self.feature_keywords.
feature_keywords ==
    [visualization |->
        <<<<"c", "h", "a", "r", "t">>,
          <<"g", "r", "a", "p", "h">>,
          <<"d", "a", "s", "h", "b", "o", "a", "r", "d">>,
          <<"v", "i", "s", "u", "a", "l">>,
          <<"r", "e", "p", "o", "r", "t">>>>,
     alerting |->
        <<<<"a", "l", "e", "r", "t">>,
          <<"n", "o", "t", "i", "f", "i", "c", "a", "t", "i", "o", "n">>,
          <<"w", "a", "r", "n", "i", "n", "g">>,
          <<"e", "m", "a", "i", "l">>,
          <<"s", "l", "a", "c", "k">>>>,
     reporting |->
        <<<<"r", "e", "p", "o", "r", "t">>,
          <<"s", "u", "m", "m", "a", "r", "y">>,
          <<"a", "n", "a", "l", "y", "s", "i", "s">>,
          <<"i", "n", "s", "i", "g", "h", "t", "s">>>>,
     real_time |->
        <<<<"r", "e", "a", "l", "-", "t", "i", "m", "e">>,
          <<"r", "e", "a", "l", "t", "i", "m", "e">>,
          <<"l", "i", "v", "e">>,
          <<"s", "t", "r", "e", "a", "m", "i", "n", "g">>,
          <<"i", "n", "s", "t", "a", "n", "t">>>>,
     machine_learning |->
        <<<<"m", "l">>,
          <<"m", "a", "c", "h", "i", "n", "e", " ", "l", "e", "a", "r", "n", "i", "n", "g">>,
          <<"p", "r", "e", "d", "i", "c", "t", "i", "o", "n">>,
          <<"a", "i">>>>,
     caching |->
        <<<<"c", "a", "c", "h", "e">>,
          <<"c", "a", "c", "h", "i", "n", "g">>,
          <<"r", "e", "d", "i", "s">>,
          <<"m", "e", "m", "c", "a", "c", "h", "e", "d">>>>]

\* The (pattern, requirement) lists of _extract_requirements, by type.
requirement_keywords ==
    [database |->
        <<[pattern |-> <<"o", "p", "t", "i", "m", "i", "z", "e", " ", "q", "u", "e", "r", "i", "e", "s">>,
           requirement |-> "optimization"],
          [pattern |-> <<"a", "n", "a", "l", "y", "z", "e", " ", "p", "e", "r", "f", "o", "r", "m", "a", "n", "c", "e">>,
           requirement |-> "performance analysis"],
          [pattern |-> <<"d", "e", "t", "e", "c", "t", " ", "s", "l", "o", "w", " ", "q", "u", "e", "r", "i", "e", "s">>,
           requirement |-> "slow query detection"],
          [pattern |-> <<"i", "n", "d", "e", "x", " ", "s", "u", "g", "g", "e", "s", "t", "i", "o", "n", "s">>,
           requirement |-> "index optimization"],
          [pattern |-> <<"q", "u", "e", "r", "y", " ", "s", "t", "a", "t", "i", "s", "t", "i", "c", "s">>,
           requirement |-> "statistics"],
          [pattern |-> <<"e", "x", "p", "l", "a", "i", "n", " ", "p", "l", "a", "n">>,
           requirement |-> "execution analysis"]>>,
     api |->
        <<[pattern |-> <<"r", "e", "s", "p", "o", "n", "s", "e", " ", "t", "i", "m", "e">>,
           requirement |-> "response time monitoring"],
          [pattern |-> <<"e", "r", "r", "o", "r", " ", "r", "a", "t", "e">>,
           requirement |-> "error rate tracking"],
          [pattern |-> <<"e", "n", "d", "p", "o", "i", "n", "t", " ", "h", "e", "a", "l", "t", "h">>,
           requirement |-> "endpoint health monitoring"],
          [pattern |-> <<"s", "l", "o", "w", " ", "e", "n", "d", "p", "o", "i", "n", "t", "s">>,
           requirement |-> "slow endpoint detection"],
          [pattern |-> <<"s", "t", "a", "t", "u", "s", " ", "c", "o", "d", "e", "s">>,
           requirement |-> "status code analysis"],
          [pattern |-> <<"l", "a", "t", "e", "n", "c", "y">>,
           requirement |-> "latency monitoring"]>>,
     security |->
        <<[pattern |-> <<"v", "u", "l", "n", "e", "r", "a", "b", "i", "l", "i", "t", "y">>,
           requirement |-> "vulnerability scanning"],
          [pattern |-> <<"s", "e", "c", "r", "e", "t", "s">>,
           requirement |-> "secret detection"],
          [pattern |-> <<"h", "a", "r", "d", "c", "o", "d", "e", "d">>,
           requirement |-> "hardcoded credential detection"],
          [pattern |-> <<"a", "u", "t", "h", "e", "n", "t", "i", "c", "a", "t", "i", "o", "n">>,
           requirement |-> "authentication check"],
          [pattern |-> <<"e", "n", "c", "r", "y", "p", "t", "i", "o", "n">>,
           requirement |-> "encryption verification"],
          [pattern |-> <<"s", "s", "l">>,
           requirement |-> "ssl/tls verification"]>>,
     logs |->
        <<[pattern |-> <<"e", "r", "r", "o", "r">>,
           requirement |-> "error detection"],
          [pattern |-> <<"a", "n", "o", "m", "a", "l", "y">>,
           requirement |-> "anomaly detection"],
          [pattern |-> <<"p", "a", "t", "t", "e", "r", "n">>,
           requirement |-> "pattern matching"],
          [pattern |-> <<"f", "i", "l", "t", "e", "r", "i", "n", "g">>,
           requirement |-> "log filtering"],
          [pattern |-> <<"a", "g", "g", "r", "e", "g", "a", "t", "i", "o", "n">>,
           requirement |-> "log aggregation"],
          [pattern |-> <<"c", "o", "r", "r", "e", "l", "a", "t", "i", "o", "n">>,
           requirement |-> "log correlation"]>>,
     performance |->
        <<[pattern |-> <<"b", "o", "t", "t", "l", "e", "n", "e", "c", "k">>,
           requirement |-> "bottleneck detection"],
          [pattern |-> <<"m", "e", "m", "o", "r", "y">>,
           requirement |-> "memory profiling"],
          [pattern |-> <<"c", "p", "u">>,
           requirement |-> "cpu profiling"],
          [pattern |-> <<"o", "p", "t", "i", "m", "i", "z", "a", "t", "i", "o", "n">>,
           requirement |-> "performance optimization"],
          [pattern |-> <<"b", "e", "n", "c", "h", "m", "a", "r", "k">>,
           requirement |-> "benchmarking"],
          [pattern |-> <<"p", "r", "o", "f", "i", "l", "i", "n", "g">>,
           requirement |-> "profiling"]>>]

\* tech_list of _extract_technologies: the name and its characters.
tech_list ==
    <<[name |-> "python", chars |-> <<"p", "y", "t", "h", "o", "n">>],
      [name |-> "javascript", chars |-> <<"j", "a", "v", "a", "s", "c", "r", "i", "p", "t">>],
      [name |-> "java", chars |-> <<"j", "a", "v", "a">>],
      [name |-> "go", chars |-> <<"g", "o">>],
      [name |-> "rust", chars |-> <<"r", "u", "s", "t">>],
      [name |-> "postgresql", chars |-> <<"p", "o", "s", "t", "g", "r", "e", "s", "q", "l">>],
      [name |-> "mongodb", chars |-> <<"m", "o", "n", "g", "o", "d", "b">>],
      [name |-> "mysql", chars |-> <<"m", "y", "s", "q", "l">>],
      [name |-> "elasticsearch", chars |-> <<"e", "l", "a", "s", "t", "i", "c", "s", "e", "a", "r", "c", "h">>],
      [name |-> "kafka", chars |-> <<"k", "a", "f", "k", "a">>],
      [name |-> "redis", chars |-> <<"r", "e", "d", "i", "s">>],
      [name |-> "rabbitmq", chars |-> <<"r", "a", "b", "b", "i", "t", "m", "q">>],
      [name |-> "docker", chars |-> <<"d", "o", "c", "k", "e", "r">>],
      [name |-> "kubernetes", chars |-> <<"k", "u", "b", "e", "r", "n", "e", "t", "e", "s">>],
      [name |-> "aws", chars |-> <<"a", "w", "s">>],
      [name |-> "gcp", chars |-> <<"g", "c", "p">>],
      [name |-> "azure", chars |-> <<"a", "z", "u", "r", "e">>]>>

\* The keys of type_keywords in the order of the dict.
TypeOrder == <<"database", "api", "logs", "security", "performance">>

\* class MCPType.
MCPType == {"database", "api", "logs", "security", "performance", "custom"}

\* sum(1 for keyword in keywords if keyword in text)
Score(mcp_type, text) ==
    Cardinality({k \in DOMAIN type_keywords[mcp_type] :
                    In(type_keywords[mcp_type][k], text)})

\* Mutant of MaxScored: of the keys of the highest score the last one.
MaxScored_Last(text) ==
    CHOOSE k \in DOMAIN TypeOrder :
        /\ \A j \in DOMAIN TypeOrder :
              Score(TypeOrder[j], text) <= Score(TypeOrder[k], text)
        /\ \A j \in DOMAIN TypeOrder :
              j > k => Score(TypeOrder[j], text) < Score(TypeOrder[k], text)

\* max(scores, key=scores.get): the first key of the highest score.
MaxScored(text) ==
    CHOOSE k \in DOMAIN TypeOrder :
        /\ \A j \in DOMAIN TypeOrder :
              Score(TypeOrder[j], text) <= Score(TypeOrder[k], text)
        /\ \A j \in DOMAIN TypeOrder :
              j < k => Score(TypeOrder[j], text) < Score(TypeOrder[k], text)

\* Mutant of _detect_mcp_type: without a match it answers with the name of
\* the template and not with a member of MCPType.
_detect_mcp_type_Generic(text) ==
    IF Score(TypeOrder[MaxScored(text)], text) = 0
      THEN "generic_agent"
      ELSE TypeOrder[MaxScored(text)]

_detect_mcp_type(text) ==
    IF Score(TypeOrder[MaxScored(text)], text) = 0
      THEN "custom"
      ELSE TypeOrder[MaxScored(text)]

\* Mutant of _extract_requirements: the labels in the order in which their
\* phrases come in the table read backwards.
_extract_requirements_Backwards(text, mcp_type) ==
    LET hits == IF mcp_type \in DOMAIN requirement_keywords
                  THEN SelectSeq(requirement_keywords[mcp_type],
                                 LAMBDA p : In(p.pattern, text))
                  ELSE <<>>
    IN  IF hits = <<>> THEN <<"basic analysis">>
        ELSE [k \in DOMAIN hits |-> hits[Len(hits) + 1 - k].requirement]

\* The if/elif chain picks the list of the type; no branch is taken for
\* any other type, and without a hit the result is ["basic analysis"].
_extract_requirements(text, mcp_type) ==
    LET hits == IF mcp_type \in DOMAIN requirement_keywords
                  THEN SelectSeq(requirement_keywords[mcp_type],
                                 LAMBDA p : In(p.pattern, text))
                  ELSE <<>>
    IN  IF hits = <<>> THEN <<"basic analysis">>
        ELSE [k \in DOMAIN hits |-> hits[k].requirement]

_detect_customizations(text) ==
    [feature \in DOMAIN feature_keywords |->
        \E k \in DOMAIN feature_keywords[feature] :
            In(feature_keywords[feature][k], text)]

_extract_technologies(text) ==
    LET found == SelectSeq(tech_list, LAMBDA tech : In(tech.chars, text))
    IN  IF found = <<>> THEN <<"python">>
        ELSE [k \in DOMAIN found |-> found[k].name]

\* re.findall(r'\b\w+\b', s) for a text of letters and blanks: its words.
RECURSIVE findall(_)
findall(s) ==
    IF s = <<>> THEN <<>>
    ELSE IF Head(s) = " " THEN findall(Tail(s))
    ELSE LET n == CHOOSE n \in 1..Len(s) :
                     /\ \A k \in 1..n : s[k] # " "
                     /\ IF n = Len(s) THEN TRUE ELSE s[n + 1] = " "
         IN  <<SubSeq(s, 1, n)>> \o findall(SubSeq(s, n + 1, Len(s)))

\* The common words of more than two characters (shorter words are dropped
\* whether common or not).
common == {<<"t", "h", "e">>, <<"f", "o", "r">>, <<"a", "n", "d">>}

\* " ".join(words)
RECURSIVE join(_)
join(words) ==
    IF words = <<>> THEN <<>>
    ELSE IF Len(words) = 1 THEN words[1]
    ELSE words[1] \o <<" ">> \o join(Tail(words))

\* mcp_type.value.title() + " Analyzer"
AnalyzerName(mcp_type) ==
    CASE mcp_type = "database" ->
           <<"D", "a", "t", "a", "b", "a", "s", "e", " ", "A", "n", "a", "l", "y", "z", "e", "r">>
      [] mcp_type = "api" ->
           <<"A", "p", "i", " ", "A", "n", "a", "l", "y", "z", "e", "r">>
      [] mcp_type = "logs" ->
           <<"L", "o", "g", "s", " ", "A", "n", "a", "l", "y", "z", "e", "r">>
      [] mcp_type = "security" ->
           <<"S", "e", "c", "u", "r", "i", "t", "y", " ", "A", "n", "a", "l", "y", "z", "e", "r">>
      [] mcp_type = "performance" ->
           <<"P", "e", "r", "f", "o", "r", "m", "a", "n", "c", "e", " ", "A", "n", "a", "l", "y", "z", "e", "r">>
      [] OTHER ->
           <<"C", "u", "s", "t", "o", "m", " ", "A", "n", "a", "l", "y", "z", "e", "r">>

_generate_mcp_name(original_input, mcp_type) ==
    LET words == SelectSeq(findall(lower(original_input)),
                           LAMBDA w : w \notin common /\ Len(w) > 2)
        name == IF Len(words) >= 2
                  THEN title(join(SubSeq(words, 1, IF Len(words) < 3
                                                     THEN Len(words) ELSE 3)))
                  ELSE AnalyzerName(mcp_type)
    IN  IF In(<<"m", "c", "p">>, lower(name)) THEN name
        ELSE name \o <<" ", "M", "C", "P">>

_get_template_for_type(mcp_type) ==
    CASE mcp_type = "database"    -> "database_analyzer"
      [] mcp_type = "api"         -> "api_monitor"
      [] mcp_type = "logs"        -> "log_analyzer"
      [] mcp_type = "security"    -> "security_scanner"
      [] mcp_type = "performance" -> "performance_profiler"
      [] OTHER                    -> "generic_agent"

\* keywords = self.type_keywords.get(mcp_type, []) and the count of those
\* that occur in the text.
Matches(mcp_type, text) ==
    IF mcp_type \in DOMAIN type_keywords THEN Score(mcp_type, text) ELSE 0

\* Mutant of _calculate_confidence: no upper limit.
_calculate_confidence_Uncapped(text, mcp_type) ==
    IF mcp_type = "custom" THEN GenericConfidence
    ELSE 70 + Matches(mcp_type, text) * 5

\* Mutant of _calculate_confidence: the custom type is scored like the others.
_calculate_confidence_Scored(text, mcp_type) ==
    IF 70 + Matches(mcp_type, text) * 5 < 95
      THEN 70 + Matches(mcp_type, text) * 5
      ELSE 95

\* 0.6 for the custom type, else min(0.95, 0.7 + matches * 0.05); in
\* hundredths.
_calculate_confidence(text, mcp_type) ==
    IF mcp_type = "custom" THEN GenericConfidence
    ELSE IF 70 + Matches(mcp_type, text) * 5 < 95
      THEN 70 + Matches(mcp_type, text) * 5
      ELSE 95

parse(input) ==
    LET user_input_lower == lower(input)
        detected_type == _detect_mcp_type(user_input_lower)
    IN  [mcp_type |-> detected_type,
         mcp_name |-> _generate_mcp_name(input, detected_type),
         description |-> input,
         requirements |-> _extract_requirements(user_input_lower, detected_type),
         customizations |-> _detect_customizations(user_input_lower),
         technologies |-> _extract_technologies(user_input_lower),
         template |-> _get_template_for_type(detected_type),
         confidence |-> _calculate_confidence(user_input_lower, detected_type)]

\* The words inputs are made of.
Vocabulary ==
    {<<"p", "o", "s", "t", "g", "r", "e", "s">>,
     <<"q", "u", "e", "r", "i", "e", "s">>,
     <<"o", "p", "t", "i", "m", "i", "z", "e">>,
     <<"M", "y", "S", "Q", "L">>,
     <<"a", "p", "i">>,
     <<"p", "e", "r", "f", "o", "r", "m", "a", "n", "c", "e">>,
     <<"l", "o", "g", "s">>,
     <<"e", "r", "r", "o", "r">>,
     <<"p", "a", "t", "t", "e", "r", "n">>,
     <<"h", "e", "l", "l", "o">>}

\* "optimize my postgres queries for slow joins"
Example ==
    <<"o", "p", "t", "i", "m", "i", "z", "e", " ",
      "m", "y", " ",
      "p", "o", "s", "t", "g", "r", "e", "s", " ",
      "q", "u", "e", "r", "i", "e", "s", " ",
      "f", "o", "r", " ",
      "s", "l", "o", "w", " ",
      "j", "o", "i", "n", "s">>

\* "mysql postgres database query index optimize"
Loaded ==
    <<"m", "y", "s", "q", "l", " ",
      "p", "o", "s", "t", "g", "r", "e", "s", " ",
      "d", "a", "t", "a", "b", "a", "s", "e", " ",
      "q", "u", "e", "r", "y", " ",
      "i", "n", "d", "e", "x", " ",
      "o", "p", "t", "i", "m", "i", "z", "e">>

RECURSIVE Sentences(_)
Sentences(n) ==
    IF n = 0 THEN {<<>>}
    ELSE Sentences(n - 1) \cup
         {s \o <<w>> : s \in Sentences(n - 1), w \in Vocabulary}

\* The inputs: the texts of up to MaxWords words, the empty one included,
\* the example, and a text of more keywords than the confidence counts.
Texts == {join(s) : s \in Sentences(MaxWords)} \cup {Example, Loaded}

ClassifyInit ==
    /\ docker_available = TRUE
    /\ next_port = FirstPort
    /\ deployed_containers = <<>>
    /\ containers = <<>>
    /\ mcp_servers = <<>>
    /\ tasks = [t \in Tasks |-> NoTask]
    /\ user_input \in Texts
    /\ parsed = NotParsed
    /\ templates_dir = <<>>
    /\ generate_args = <<>>
    /\ generated = <<>>

\* intent_parser.parse(user_input)
Parse ==
    /\ parsed = NotParsed
    /\ parsed' = parse(user_input)
    /\ UNCHANGED <<docker_available, next_port, deployed_containers,
                   containers, mcp_servers, tasks, user_input, templates_dir,
                   generate_args, generated>>

ClassifyNext == Parse

ClassifySpec == ClassifyInit /\ [][ClassifyNext]_vars

\* =============================================== CodeGenerator, called directly
\* generate_mcp_server contains no await that suspends: a call runs from its
\* first line to its return as one step.  The file system is taken to work
\* (mkdtemp, read_text and write_text do not raise); what templates_dir holds
\* is the environment's choice.

\* Entries of the customizations dict of a call.
MaxFlags == 2

\* The pieces of a source text: code, a route binding, a placeholder, a
\* value put in place of a placeholder.
Code(text) == [kind |-> "code", text |-> text]
Route(text) == [kind |-> "route", text |-> text]
Placeholder(text) == [kind |-> "placeholder", text |-> text]
Value(text) == [kind |-> "value", text |-> text]

template_map ==
    [database_analyzer |-> "database_analyzer_template.py",
     api_monitor |-> "api_monitor_template.py",
     log_analyzer |-> "log_analyzer_template.py",
     security_scanner |-> "security_scanner_template.py",
     performance_profiler |-> "performance_profiler_template.py",
     generic_agent |-> "generic_agent_template.py"]

_get_default_template ==
    <<Code("from fastapi import FastAPI, HTTPException"),
      Code("app = FastAPI(title="), Placeholder("{{MCP_NAME}}"),
      Code("class AnalysisRequest(BaseModel)"),
      Code("class AnalysisResponse(BaseModel)"),
      Route("GET /health"),
      Code("service"), Placeholder("{{MCP_NAME}}"),
      Code("type"), Placeholder("{{MCP_TYPE}}"),
      Route("GET /info"),
      Code("name"), Placeholder("{{MCP_NAME}}"),
      Code("type"), Placeholder("{{MCP_TYPE}}"),
      Code("requirements"), Placeholder("{{REQUIREMENTS}}"),
      Route("POST /analyze"),
      Code("async def analyze(request)"),
      Code("uvicorn.run(app)")>>

_add_visualization_feature ==
    <<Code("# VISUALIZATION FEATURE"),
      Route("GET /visualize"),
      Code("async def visualize()")>>

_add_alerting_feature ==
    <<Code("# ALERTING FEATURE"),
      Code("async def send_alert(message, level)")>>

_add_reporting_feature ==
    <<Code("# REPORTING FEATURE"),
      Code("def generate_report(data)")>>

_add_realtime_feature ==
    <<Code("# REAL-TIME FEATURE"),
      Route("WEBSOCKET /ws"),
      Code("async def websocket_endpoint(websocket)")>>

\* A template file that names its class and serves a chart of its own.
ChartTemplate ==
    <<Code("class"), Placeholder("{{CLASS_NAME}}")>>
        \o _get_default_template
        \o <<Route("GET /visualize"), Code("async def chart()")>>

\* What templates_dir may hold: nothing, or the file of the database
\* analyzer, with a text of its own or empty.
Disks ==
    {<<>>}
        \cup {[f \in {template_map.database_analyzer} |-> text] :
                 text \in {ChartTemplate, <<>>}}

\* _load_template returns None.
None == <<>>

\* Mutant of _load_template: a name outside template_map gets the default
\* template.
_load_template_Default(template_name) ==
    IF template_name \in DOMAIN template_map
         /\ template_map[template_name] \in DOMAIN templates_dir
      THEN templates_dir[template_map[template_name]]
      ELSE _get_default_template

_load_template(template_name) ==
    IF template_name \notin DOMAIN template_map THEN None
    ELSE IF template_map[template_name] \in DOMAIN templates_dir
      THEN templates_dir[template_map[template_name]]
      ELSE _get_default_template

\* customizations.get(key): a dict is the sequence of its items in insertion
\* order; a key that is absent gives None, which counts as false.
get(customizations, key) ==
    \E k \in DOMAIN customizations :
        customizations[k].key = key /\ customizations[k].value

\* code.replace(marker, value): every occurrence.
RECURSIVE replace(_, _, _)
replace(code, marker, value) ==
    IF code = <<>> THEN <<>>
    ELSE (IF Head(code) = Placeholder(marker) THEN value ELSE <<Head(code)>>)
             \o replace(Tail(code), marker, value)

\* Mutant of _customize_code: the snippets are appended in the order in which
\* the flags come in the dict.
_customize_code_Supplied(template, mcp_name, mcp_type, requirements, customizations) ==
    LET class_name == [kind |-> "class_name", text |-> mcp_name]
        named == replace(template, "{{MCP_NAME}}", <<Value(mcp_name)>>)
        classed == replace(named, "{{CLASS_NAME}}", <<class_name>>)
        typed == replace(classed, "{{MCP_TYPE}}", <<Value(mcp_type)>>)
        requirements_comment ==
            [k \in DOMAIN requirements |->
                [kind |-> "comment", text |-> requirements[k]]]
        code == replace(typed, "{{REQUIREMENTS}}", requirements_comment)
        feature(item) ==
            IF ~item.value THEN <<>>
            ELSE CASE item.key = "visualization" -> _add_visualization_feature
                   [] item.key = "alerting" -> _add_alerting_feature
                   [] item.key = "reporting" -> _add_reporting_feature
                   [] item.key = "real_time" -> _add_realtime_feature
                   [] OTHER -> <<>>
        first == IF Len(customizations) >= 1
                   THEN feature(customizations[1]) ELSE <<>>
        second == IF Len(customizations) >= 2
                    THEN feature(customizations[2]) ELSE <<>>
        third == IF Len(customizations) >= 3
                   THEN feature(customizations[3]) ELSE <<>>
    IN  code \o first \o second \o third

\* The class name is kept as the name it is made of (the words of mcp_name,
\* capitalized and joined).
_customize_code(template, mcp_name, mcp_type, requirements, customizations) ==
    LET class_name == [kind |-> "class_name", text |-> mcp_name]
        named == replace(template, "{{MCP_NAME}}", <<Value(mcp_name)>>)
        classed == replace(named, "{{CLASS_NAME}}", <<class_name>>)
        typed == replace(classed, "{{MCP_TYPE}}", <<Value(mcp_type)>>)
        requirements_comment ==
            [k \in DOMAIN requirements |->
                [kind |-> "comment", text |-> requirements[k]]]
        code == replace(typed, "{{REQUIREMENTS}}", requirements_comment)
    IN  code
          \o (IF get(customizations, "visualization")
                THEN _add_visualization_feature ELSE <<>>)
          \o (IF get(customizations, "alerting")
                THEN _add_alerting_feature ELSE <<>>)
          \o (IF get(customizations, "reporting")
                THEN _add_reporting_feature ELSE <<>>)
          \o (IF get(customizations, "real_time")
                THEN _add_realtime_feature ELSE <<>>)

\* The lines of requirements.txt.
_generate_requirements(mcp_type, technologies, customizations) ==
    <<"fastapi==0.109.0", "uvicorn==0.27.0", "pydantic==2.5.0",
      "httpx==0.25.0">>
      \o (CASE mcp_type = "database" ->
                 <<"sqlalchemy==2.0.23", "psycopg2-binary==2.9.9",
                   "pymongo==4.6.0">>
            [] mcp_type = "api" -> <<"aiohttp==3.9.1", "httpx==0.25.0">>
            [] mcp_type = "logs" ->
                 <<"python-json-logger==2.0.7", "elasticsearch==8.11.0">>
            [] mcp_type = "security" -> <<"bandit==1.7.5", "safety==2.3.5">>
            [] mcp_type = "performance" ->
                 <<"psutil==5.9.6", "memory-profiler==0.61.0">>
            [] OTHER -> <<>>)
      \o (IF get(customizations, "visualization")
            THEN <<"plotly==5.18.0">> ELSE <<>>)
      \o (IF get(customizations, "caching")
            THEN <<"redis==5.0.1">> ELSE <<>>)

_generate_dockerfile ==
    <<"FROM python:3.11-slim", "WORKDIR /app",
      "COPY requirements.txt .",
      "RUN pip install --no-cache-dir -r requirements.txt",
      "COPY . .", "EXPOSE 8000", "HEALTHCHECK", "CMD uvicorn server:app">>

\* json.dumps(config, indent=2): the keys of a dict in insertion order.
_generate_config(mcp_name, mcp_type, requirements, customizations) ==
    [name |-> mcp_name,
     type |-> mcp_type,
     version |-> "1.0.0",
     requirements |-> requirements,
     customizations |-> customizations,
     endpoints |-> <<"/health", "/analyze", "/info">>,
     metadata |-> [created_by |-> "AutoAI MCP Builder",
                   auto_generated |-> TRUE]]

\* The heading, the type, the features and one line for each item of
\* customizations.items() whose value is true.
_generate_readme(mcp_name, mcp_type, requirements, customizations) ==
    [title |-> mcp_name,
     type |-> mcp_type,
     features |-> requirements,
     customizations |->
        LET set == SelectSeq(customizations, LAMBDA item : item.value)
        IN  [k \in DOMAIN set |-> set[k].key]]

\* Path.suffix of the generated files.
suffix ==
    [f \in {"server.py", "requirements.txt", "Dockerfile", ".dockerignore",
            "config.json", "README.md"} |->
        CASE f = "server.py" -> ".py"
          [] f = "requirements.txt" -> ".txt"
          [] f = "config.json" -> ".json"
          [] f = "README.md" -> ".md"
          [] OTHER -> ""]

\* The entries of the result's "files", name and type; glob leaves their
\* order to the file system and the sizes are not kept.
_list_files(directory) ==
    {[name |-> directory[k].name, type |-> suffix[directory[k].name]] :
        k \in DOMAIN directory}

\* A call: what it returns (result) and what it leaves in the directory that
\* mkdtemp made (temp_dir its name, directory its files in the order written).
generate_mcp_server(mcp_name, template_name, mcp_type, requirements, customizations, technologies, temp_dir) ==
    LET template_content == _load_template(template_name)
        directory ==
            <<[name |-> "server.py",
               content |-> _customize_code(template_content, mcp_name,
                                           mcp_type, requirements,
                                           customizations)],
              [name |-> "requirements.txt",
               content |-> _generate_requirements(mcp_type, technologies,
                                                  customizations)],
              [name |-> "Dockerfile", content |-> _generate_dockerfile],
              [name |-> ".dockerignore",
               content |-> <<"__pycache__", "*.pyc", ".env", ".git">>],
              [name |-> "config.json",
               content |-> _generate_config(mcp_name, mcp_type, requirements,
                                            customizations)],
              [name |-> "README.md",
               content |-> _generate_readme(mcp_name, mcp_type, requirements,
                                            customizations)]>>
    IN  IF template_content = <<>>
          THEN [result |-> [success |-> FALSE,
                            error |-> <<"Template", template_name,
                                        "not found">>],
                temp_dir |-> temp_dir,
                directory |-> <<>>]
          ELSE [result |-> [success |-> TRUE,
                            mcp_name |-> mcp_name,
                            mcp_type |-> mcp_type,
                            project_dir |-> temp_dir,
                            files |-> _list_files(directory),
                            file_count |-> Len(directory)],
                temp_dir |-> temp_dir,
                directory |-> directory]

\* The flags the parser knows.
Features == DOMAIN feature_keywords

\* The dicts of up to n items: sequences of items of distinct keys.
RECURSIVE Dicts(_)
Dicts(n) ==
    IF n = 0 THEN {<<>>}
    ELSE LET shorter == Dicts(n - 1)
         IN  shorter \cup
               {Append(d, [key |-> f, value |-> v]) :
                   d \in {e \in shorter : Len(e) = n - 1},
                   f \in Features, v \in BOOLEAN}

Customizations ==
    {d \in Dicts(MaxFlags) :
        \A j, k \in DOMAIN d : d[j].key = d[k].key => j = k}

\* The template and type of a call: the pairs that parse produces, and two
\* names outside template_map.
Templates ==
    {<<_get_template_for_type(t), t>> : t \in MCPType}
        \cup {<<"unknown_template", "custom">>, <<"", "database">>}

\* The calls made.
Calls ==
    {[mcp_name |-> "Postgres Queries MCP",
      template_name |-> tt[1],
      mcp_type |-> tt[2],
      requirements |-> <<"optimization", "statistics">>,
      customizations |-> c,
      technologies |-> <<"postgres">>] :
        tt \in Templates, c \in Customizations}

Reverse(s) == [k \in DOMAIN s |-> s[Len(s) + 1 - k]]

\* The same flags set, supplied otherwise: in the opposite order, or
\* without the items that are false.
Resupplied(customizations) ==
    {Reverse(customizations),
     SelectSeq(customizations, LAMBDA item : item.value)}

RenderInit ==
    /\ docker_available = TRUE
    /\ next_port = FirstPort
    /\ deployed_containers = <<>>
    /\ containers = <<>>
    /\ mcp_servers = <<>>
    /\ tasks = [t \in Tasks |-> NoTask]
    /\ user_input = <<>>
    /\ parsed = NotParsed
    /\ templates_dir \in Disks
    /\ generate_args \in {<<call>> : call \in Calls}
    /\ generated = <<>>

\* code_generator.generate_mcp_server(...) runs and returns.
Generate ==
    /\ Len(generated) < Len(generate_args)
    /\ LET call == generate_args[Len(generated) + 1]
       IN  generated' =
             Append(generated,
                    generate_mcp_server(call.mcp_name, call.template_name,
                                        call.mcp_type, call.requirements,
                                        call.customizations,
                                        call.technologies,
                                        Len(generated) + 1))
    /\ UNCHANGED <<docker_available, next_port, deployed_containers,
                   containers, mcp_servers, tasks, user_input, parsed,
                   templates_dir, generate_args>>

\* A second call with the arguments of the first, the flags resupplied.
CalledAgain(customizations) ==
    /\ Len(generate_args) = 1
    /\ Len(generated) = 1
    /\ generate_args' =
         Append(generate_args,
                [generate_args[1] EXCEPT !.customizations = customizations])
    /\ UNCHANGED <<docker_available, next_port, deployed_containers,
                   containers, mcp_servers, tasks, user_input, parsed,
                   templates_dir, generated>>

RenderNext ==
    \/ Generate
    \/ \E customizations \in Resupplied(generate_args[1].customizations) :
          CalledAgain(customizations)

RenderSpec == RenderInit /\ [][RenderNext]_vars

\* ================================================================== claims
GenTasks == {t \in Tasks : tasks[t].kind = "gen"}
DelTasks == {t \in Tasks : tasks[t].kind = "del"}

\* The earlier containers of the id of task t that belong to a deployment the
\* deployer counts as running: its deploy is in the health wait
\* (RUNNING_UNVERIFIED) or has returned success.
PriorDeployments(t) ==
    {c \in DOMAIN containers :
        /\ c < tasks[t].cid
        /\ containers[c].mcp_id = tasks[t].id
        /\ \/ tasks[containers[c].task].pc = "health"
           \/ tasks[containers[c].task].deploy = "success"}

\* C1: once a deploy of an id has started its container, every container of
\* an earlier deployment of that id (in its health wait or returned as
\* success) has been stopped, so one container runs for the id.
C1_RedeployTearsDownPrevious ==
    \A t \in GenTasks :
        tasks[t].cid # 0 =>
            \A c \in PriorDeployments(t) : ~containers[c].running

\* C2: a deploy whose health wait ran out of probes (_wait_for_health returned
\* False) does not return success with status "running".
C2_TimeoutNotReportedRunning ==
    \A t \in GenTasks : tasks[t].healthy = "no" => tasks[t].deploy # "success"

\* The leases live deployments hold: the port of every entry of
\* deployed_containers and of every deploy waiting for the health of the
\* container it started.
LeaseHolders ==
    {[holder |-> <<"deploy", t>>, port |-> tasks[t].port] :
        t \in {u \in GenTasks : tasks[u].pc = "health"}}
    \cup
    {[holder |-> <<"entry", i>>, port |-> deployed_containers[i].port] :
        i \in DOMAIN deployed_containers}

\* C3: the leases held at the same time by live deployments have pairwise
\* distinct ports, also once the cursor has reached the end of the range.
C3_LeasesDistinct ==
    \A a, b \in LeaseHolders : a.port = b.port => a = b

\* Two leases are held at once and the range has been scanned to its end.
C3_Witness ==
    /\ Cardinality(LeaseHolders) >= 2
    /\ next_port >= RangeEnd

\* C4: a lease taken while every port of the range is bound fails: it
\* returns no port number.
C4_ExhaustedLeaseFails ==
    \A t \in GenTasks : tasks[t].range_full => tasks[t].port = 0

\* No other deploy carries the id of task t.
SoleDeploy(t) ==
    \A u \in GenTasks \ {t} : tasks[u].id # tasks[t].id

C6_FailureStopsContainer ==
    \A t \in GenTasks :
        (tasks[t].error \in {"run", "deploy"} \/ tasks[t].healthy = "no") =>
            /\ tasks[t].cid # 0 => ~containers[tasks[t].cid].running
            /\ \A i \in DOMAIN deployed_containers :
                  tasks[t].cid # 0 =>
                      deployed_containers[i].container_id # tasks[t].cid

\* The ports deployments gave back: leased by a deploy whose run failed, or
\* whose container has been stopped.
ReleasedPorts ==
    {tasks[t].port :
        t \in {u \in GenTasks :
                 /\ tasks[u].port # 0
                 /\ \/ tasks[u].error = "run"
                    \/ tasks[u].cid # 0 /\ ~containers[tasks[u].cid].running}}

\* C7: a port given back by a failed deploy or by a teardown, and bound by
\* nothing, can be returned by a later lease: it lies in what the scan from
\* the cursor still covers.
C7_ReleasedPortLeasable ==
    \A p \in ReleasedPorts : ~PortAllocated(p) => p >= next_port

\* C8: a teardown of an id known nowhere (no entry, no record, no container)
\* returns a failure: its result is not success.
C8_UnknownTeardownNotFound ==
    \A t \in DelTasks :
        (tasks[t].unknown /\ tasks[t].pc = "done") => tasks[t].result = "failed"

\* C9: the container a cancelled task started is stopped and its port is
\* bound no more.
C9_CancelReleases ==
    \A t \in GenTasks :
        (tasks[t].pc = "cancelled" /\ tasks[t].cid # 0) =>
            /\ ~containers[tasks[t].cid].running
            /\ ~PortAllocated(tasks[t].port)

RecordsOf(i) == {k \in DOMAIN mcp_servers : mcp_servers[k].mcp_id = i}

\* C10: no step removes a record of an id while a container of that id is
\* running.
C10_DeleteAfterTeardown ==
    [][\A i \in Ids :
          Cardinality(RecordsOf(i)') < Cardinality(RecordsOf(i)) =>
              RunningFor(i)' = {}]_vars

\* C11: every record whose status is "active" (the status the code gives a
\* running deployment) has a running container of its id bound to its port,
\* at every moment, also while a teardown is under way and after the delete
\* of the record failed.
C11_ActiveRecordHasContainer ==
    \A k \in DOMAIN mcp_servers :
        mcp_servers[k].status = "active" =>
            \E c \in RunningFor(mcp_servers[k].mcp_id) :
                containers[c].port = mcp_servers[k].port

\* The phases a failure is attributed to.
Phases == {"classification", "render", "build", "run", "verify"}

\* C12: every failure response of generate carries the phase at which the
\* failure occurred, whichever stage failed, the catch-all path included.
C12_FailureCarriesPhase ==
    \A t \in GenTasks :
        Response(t).status = "failed" =>
            /\ "phase" \in DOMAIN Response(t)
            /\ Response(t).phase \in Phases

\* C13: when the insert of the record failed after the container was
\* started, the caller is not given an unqualified success, and the container
\* the invocation started has not been stopped by it.
C13_WriteFailureSurfaced ==
    \A t \in GenTasks :
        (tasks[t].insert = "failed" /\ tasks[t].pc = "done") =>
            /\ Response(t).status # "success"
            /\ DelTasks = {} => containers[tasks[t].cid].running

\* C14: status(task_id) exposes the most recently emitted phase message: the
\* message kept for the task is the last one the pipeline passed to its
\* progress callback.
C14_StatusShowsLastMessage ==
    \A t \in GenTasks : tasks[t].message = tasks[t].emitted

\* C15: emitting progress does not alter the outcome: a generate that has
\* returned, whose container is running and whose record was written, did
\* not return a failed result.
C15_EmissionKeepsOutcome ==
    \A t \in GenTasks :
        (/\ tasks[t].pc = "done"
         /\ tasks[t].insert = "ok"
         /\ containers[tasks[t].cid].running) =>
            Response(t).status # "failed"

\* C16: when the registration that follows the start of the container has
\* failed, the later stages were not run (no record of the invocation) and
\* the cleanup was: the container the invocation started does not run and
\* its artifact directory is gone.
C16_LateFailureCleansUp ==
    \A t \in GenTasks :
        tasks[t].error = "register" =>
            /\ \A k \in DOMAIN mcp_servers : mcp_servers[k].task # t
            /\ ~containers[tasks[t].cid].running
            /\ ~tasks[t].project_dir

\* C17: a deploy of an id that was suspended in its health wait when a
\* teardown of that id ran does not end as a running deployment: it does not
\* return success.
C17_TeardownDuringPollEndsDeploy ==
    \A u \in DelTasks :
        \A t \in tasks[u].polling : tasks[t].deploy # "success"

\* The image of the deploy of task t was built: the port search, which
\* follows the build, has returned a port.
BuildSucceeded(t) == tasks[t].port # 0

\* C18: the artifact directory of an invocation is retained when its image
\* build failed and is deleted once its image build succeeded, so none
\* remains after a successful generate.
C18_ArtifactDeletedAfterBuild ==
    \A t \in GenTasks :
        /\ tasks[t].error = "build" => tasks[t].project_dir
        /\ BuildSucceeded(t) => ~tasks[t].project_dir
        /\ Response(t).status = "success" => ~tasks[t].project_dir

\* The failures of generation and deployment.
EarlyFailures == {"generate", "docker", "build", "run", "deploy"}

\* C19: a record is created only after the container of its id was started:
\* every record, and every insert that was attempted, belongs to an
\* invocation whose deploy returned success for a container it started with
\* that id; an invocation whose generation or deployment failed attempted
\* no insert and has no record.
C19_RecordAfterContainer ==
    /\ \A k \in DOMAIN mcp_servers :
          /\ tasks[mcp_servers[k].task].cid # 0
          /\ tasks[mcp_servers[k].task].deploy = "success"
          /\ containers[tasks[mcp_servers[k].task].cid].mcp_id
                = mcp_servers[k].mcp_id
    /\ \A t \in GenTasks :
          /\ tasks[t].insert # "none" =>
                tasks[t].cid # 0 /\ tasks[t].deploy = "success"
          /\ tasks[t].error \in EarlyFailures =>
                /\ tasks[t].insert = "none"
                /\ \A k \in DOMAIN mcp_servers : mcp_servers[k].task # t

\* A record has been created for one invocation, and the deployment of
\* another one has failed.
C19_Witness ==
    /\ mcp_servers # <<>>
    /\ \E t \in GenTasks : tasks[t].error \in {"run", "deploy"}

AppliedTrack(k) ==
    {t \in Tasks :
        /\ tasks[t].kind = "none"
        /\ tasks'[t].kind = "track"
        /\ tasks'[t].error = "none"
        /\ Match(mcp_servers, tasks'[t].id) = k}

\* What no registry update changes, and how the counters move: never down,
\* a successful tracked call adds 1 to the calls and leaves the errors, a
\* failed one adds 1 to the errors and leaves the calls.
CountersStep(k) ==
    /\ mcp_servers'[k].mcp_id = mcp_servers[k].mcp_id
    /\ mcp_servers'[k].port = mcp_servers[k].port
    /\ mcp_servers'[k].created_at = mcp_servers[k].created_at
    /\ mcp_servers'[k].calls >= mcp_servers[k].calls
    /\ mcp_servers'[k].errors >= mcp_servers[k].errors
    /\ \A t \in AppliedTrack(k) :
          IF tasks'[t].success
            THEN /\ mcp_servers'[k].calls = mcp_servers[k].calls + 1
                 /\ mcp_servers'[k].errors = mcp_servers[k].errors
            ELSE /\ mcp_servers'[k].errors = mcp_servers[k].errors + 1
                 /\ mcp_servers'[k].calls = mcp_servers[k].calls

Effective ==
    {t \in Tasks :
        /\ tasks[t].kind = "upd" /\ tasks[t].pc = "update_one"
        /\ tasks'[t].modified = 1}

\* C22: a status update takes effect only when the status of the record is
\* still the one it had when the update was called, so that of two updates of
\* one id called from the same status at most one takes effect.
C22_GuardedStatusUpdate ==
    [][\A t \in Effective : StatusOf(tasks[t].id) = tasks[t].prior]_vars

\* C23: classify returns, for every input, a category of the closed set
\* MCPType, and with it a template, a requirement list and a confidence.
C23_ClassifyTotal ==
    parsed # NotParsed =>
        /\ parsed.mcp_type \in MCPType
        /\ parsed.requirements # <<>>
        /\ parsed.confidence \in 0..100

\* An input whose keywords tie between two categories has been classified.
C23_Witness ==
    /\ parsed # NotParsed
    /\ parsed.mcp_type = "api"
    /\ Score("performance", lower(user_input)) = Score("api", lower(user_input))

\* The requirements that name an optimization.
OptimizationEntries == {"optimization", "index optimization"}

\* C24: the example "optimize my postgres queries for slow joins" is
\* classified as database, with an optimization among its requirements and a
\* confidence of at least 0.7.
C24_ExampleClassified ==
    (user_input = Example /\ parsed # NotParsed) =>
        /\ parsed.mcp_type = "database"
        /\ \E k \in DOMAIN parsed.requirements :
              parsed.requirements[k] \in OptimizationEntries
        /\ parsed.confidence >= 70

\* No keyword of any category occurs in the text.
NoKeyword(text) == \A k \in DOMAIN TypeOrder : Score(TypeOrder[k], text) = 0

\* C25: an input in which no category keyword occurs, the empty one
\* included, is classified as the generic category (custom, template
\* generic_agent) with the fixed generic confidence.
C25_GenericDefault ==
    (parsed # NotParsed /\ NoKeyword(lower(user_input))) =>
        /\ parsed.mcp_type = "custom"
        /\ parsed.template = "generic_agent"
        /\ parsed.confidence = GenericConfidence

\* The empty input has been classified.
C25_Witness ==
    /\ parsed # NotParsed
    /\ user_input = <<>>

\* The calls that have returned.
Returned == DOMAIN generated

\* The file of the given name that call i wrote.
File(i, name) ==
    generated[i].directory[CHOOSE k \in DOMAIN generated[i].directory :
                               generated[i].directory[k].name = name].content

\* The flags that are true in a customizations dict.
TrueFlags(customizations) ==
    {customizations[k].key :
        k \in {j \in DOMAIN customizations : customizations[j].value}}

\* Two calls of the same category, parameters and set of true flags.
SameInputs(a, b) ==
    /\ a.mcp_name = b.mcp_name
    /\ a.template_name = b.template_name
    /\ a.mcp_type = b.mcp_type
    /\ a.requirements = b.requirements
    /\ a.technologies = b.technologies
    /\ TrueFlags(a.customizations) = TrueFlags(b.customizations)

\* C26: two calls with the same category, parameters and set of true flags
\* write the same files with the same contents, in whatever order the flags
\* were supplied.
C26_SameFlagsSameOutput ==
    \A i, j \in Returned :
        SameInputs(generate_args[i], generate_args[j]) =>
            generated[i].directory = generated[j].directory

Routes(code) == SelectSeq(code, LAMBDA piece : piece.kind = "route")

\* C28: no artifact is produced in which a route is bound twice, by two
\* snippets or by a snippet and the template.
C28_NoRouteBoundTwice ==
    \A i \in Returned :
        generated[i].result.success =>
            LET routes == Routes(File(i, "server.py"))
            IN  \A j, k \in DOMAIN routes : routes[j] = routes[k] => j = k

\* The defaults of a category and the additions of the flags.
Defaults(mcp_type) == _generate_requirements(mcp_type, <<>>, <<>>)
Additions(customizations) ==
    SubSeq(_generate_requirements("custom", <<>>, customizations),
           Len(Defaults("custom")) + 1,
           Len(_generate_requirements("custom", <<>>, customizations)))
Range(s) == {s[k] : k \in DOMAIN s}

\* C29: the dependency manifest is the union of the defaults of the category
\* and the additions of the flags, each entry once.
C29_ManifestDeduplicated ==
    \A i \in Returned :
        generated[i].result.success =>
            LET manifest == File(i, "requirements.txt")
            IN  /\ Range(manifest) =
                     Range(Defaults(generate_args[i].mcp_type)) \cup
                     Range(Additions(generate_args[i].customizations))
                /\ \A j, k \in DOMAIN manifest :
                      manifest[j] = manifest[k] => j = k

\* The requests whose deploy searches a port in the step.
Leasing == {t \in Tasks : tasks[t].kind = "none" /\ tasks'[t].port # 0}

\* C30: a port whose probe was inconclusive (lsof raised or timed out) is
\* taken as unavailable and no lease returns it: the port a deploy is given
\* is the result of a scan that did not return from the except clause.
C30_InconclusiveNotLeased ==
    [][\A t \in Leasing :
          \E exc \in ExcChoices :
              /\ ~_find_available_port(exc).raised
              /\ tasks'[t].port = _find_available_port(exc).port
              /\ next_port' = _find_available_port(exc).next_port]_vars

\* The declaration order of the categories.
Declared == <<"database", "api", "logs", "security", "performance">>

\* The distinct keywords of a category that occur in the input, whatever the
\* case of the input's letters.
Hits(category, input) ==
    {type_keywords[category][k] : k \in
        {j \in DOMAIN type_keywords[category] :
            In(lower(type_keywords[category][j]), lower(input))}}

\* C33: the category returned has the greatest number of distinct keywords
\* in the input, and of the categories that have that number (when it is not
\* zero) it is the one declared first.
C33_MaxScoreFirstDeclared ==
    (parsed # NotParsed /\ parsed.mcp_type # "custom") =>
        \E k \in DOMAIN Declared :
            /\ parsed.mcp_type = Declared[k]
            /\ Cardinality(Hits(Declared[k], user_input)) > 0
            /\ \A j \in DOMAIN Declared :
                  Cardinality(Hits(Declared[j], user_input))
                      <= Cardinality(Hits(Declared[k], user_input))
            /\ \A j \in 1..(k - 1) :
                  Cardinality(Hits(Declared[j], user_input))
                      < Cardinality(Hits(Declared[k], user_input))

\* An input has been classified as database that has as many keywords of
\* performance as of database.
C33_Witness ==
    /\ parsed # NotParsed
    /\ parsed.mcp_type = "database"
    /\ Cardinality(Hits("database", user_input))
          = Cardinality(Hits("performance", user_input))

\* base, increment and cap of the confidence, in hundredths.
Base == 70
Increment == 5
Cap == 95

\* clamp(value, low, high)
Clamp(value, low, high) ==
    IF value < low THEN low ELSE IF value > high THEN high ELSE value

\* The confidence that h hits give.
Confidence(h) == Clamp(Base + h * Increment, Base, Cap)

\* C34: an input classified into a category other than the generic one with
\* h keyword hits has confidence clamp(base + h * increment, base, cap); the
\* value lies between base and cap, is above the generic constant, and is
\* not below the value that fewer hits give.
C34_ConfidenceClamped ==
    (parsed # NotParsed /\ parsed.mcp_type # "custom") =>
        LET h == Cardinality(Hits(parsed.mcp_type, user_input))
        IN  /\ parsed.confidence = Confidence(h)
            /\ parsed.confidence >= Base
            /\ parsed.confidence <= Cap
            /\ parsed.confidence > GenericConfidence
            /\ \A g \in 0..h : Confidence(g) <= parsed.confidence

\* An input of more hits than the cap allows for has been classified.
C34_Witness ==
    /\ parsed # NotParsed
    /\ parsed.mcp_type = "database"
    /\ Base + Cardinality(Hits("database", user_input)) * Increment > Cap

\* The labels of a category in the order of its phrase table.
Labels(category) ==
    [k \in DOMAIN requirement_keywords[category] |->
        requirement_keywords[category][k].requirement]

\* The places of the table of a category whose phrase occurs in the text.
Matched(category, text) ==
    {k \in DOMAIN requirement_keywords[category] :
        In(requirement_keywords[category][k].pattern, text)}

\* C35: the requirement list is not empty and holds no label twice; it
\* holds the labels whose phrases occur in the input, in the order of the
\* phrase table of the category, and is the single entry "basic analysis"
\* when none occurs, as for the generic category.
C35_RequirementsInTableOrder ==
    parsed # NotParsed =>
        LET r == parsed.requirements
            c == parsed.mcp_type
            found == IF c = "custom" THEN {}
                     ELSE Matched(c, lower(user_input))
        IN  /\ r # <<>>
            /\ \A j, k \in DOMAIN r : r[j] = r[k] => j = k
            /\ found = {} => r = <<"basic analysis">>
            /\ found # {} =>
                  /\ {r[k] : k \in DOMAIN r} = {Labels(c)[k] : k \in found}
                  /\ \A j, k \in DOMAIN r :
                        j < k =>
                          \E m, n \in found :
                              /\ m < n
                              /\ Labels(c)[m] = r[j]
                              /\ Labels(c)[n] = r[k]

\* An input has been classified in which the phrases of two labels occur in
\* the order opposite to that of the table.
C35_Witness ==
    /\ parsed # NotParsed
    /\ parsed.mcp_type = "logs"
    /\ parsed.requirements = <<"error detection", "pattern matching">>
    /\ Head(user_input) = "p"

\* The canonical order of the flags that have a snippet, and the snippets.
Canonical == <<"visualization", "alerting", "reporting", "real_time">>
Snippet ==
    [visualization |-> _add_visualization_feature,
     alerting |-> _add_alerting_feature,
     reporting |-> _add_reporting_feature,
     real_time |-> _add_realtime_feature]

\* The snippets of the flags of the set, from place k of the canonical order
\* on.
RECURSIVE Appended(_, _)
Appended(flags, k) ==
    IF k > Len(Canonical) THEN <<>>
    ELSE (IF Canonical[k] \in flags THEN Snippet[Canonical[k]] ELSE <<>>)
             \o Appended(flags, k + 1)

\* server.py of call i as it is with no flag set.
Plain(i) ==
    _customize_code(_load_template(generate_args[i].template_name),
                    generate_args[i].mcp_name, generate_args[i].mcp_type,
                    generate_args[i].requirements, <<>>)

\* C36: server.py is the customized template followed by the snippet of
\* each true flag, once, in the order visualization, alerting, reporting,
\* real_time, whatever the order in which the flags were set; a flag that
\* is false or absent adds nothing.
C36_SnippetsInCanonicalOrder ==
    \A i \in Returned :
        generated[i].result.success =>
            File(i, "server.py") =
                Plain(i) \o
                Appended(TrueFlags(generate_args[i].customizations), 1)

\* A call has returned whose flags were set in the order real_time,
\* visualization, both true.
C36_Witness ==
    \E i \in Returned :
        /\ generated[i].result.success
        /\ Len(generate_args[i].customizations) = 2
        /\ generate_args[i].customizations[1] =
              [key |-> "real_time", value |-> TRUE]
        /\ generate_args[i].customizations[2] =
              [key |-> "visualization", value |-> TRUE]

\* The template names the classifier produces.
Classified == {_get_template_for_type(t) : t \in MCPType}

\* C40: every template name the classifier produces is one the generator
\* knows, and a call with such a name does not fail for want of a template:
\* when the file of the name is missing the default template is used.
C40_ClassifiedTemplateRenders ==
    /\ Classified \subseteq DOMAIN template_map
    /\ \A i \in Returned :
          generate_args[i].template_name \in Classified =>
              generated[i].result.success

\* The containers that the step starts.
NewContainers == DOMAIN containers' \ DOMAIN containers

\* C31: nothing is retried automatically.  A container is started only in
\* the step in which a request begins its deploy (build, port, run), and a
\* request starts at most one: after a failed build, a failed run or an
\* exhausted health wait no step builds or runs again for that request.
C31_NoAutomaticRetry ==
    [][\A c \in NewContainers :
          /\ tasks[containers'[c].task].kind = "none"
          /\ \A d \in DOMAIN containers :
                containers[d].task # containers'[c].task]_vars

\* A deploy whose health wait was exhausted has gone on, with the one
\* container it started.
C31_Witness ==
    \E t \in GenTasks :
        /\ tasks[t].healthy = "no"
        /\ Cardinality({c \in DOMAIN containers : containers[c].task = t}) = 1

\* The requests that are in the health wait before the step and take it.
Probing == {t \in GenTasks : InHealth(t) /\ tasks'[t] # tasks[t]}

ReturnedTasks == {t \in GenTasks : tasks[t].result # "none"}

\* C37: once generate_mcp has returned for a task, the tracked status of the
\* task is "completed" when it returned success and "failed" when it
\* returned failed, never still "generating".
C37_StatusAgreesWithResult ==
    \A t \in ReturnedTasks :
        /\ tasks[t].result = "success" => tasks[t].status = "completed"
        /\ tasks[t].result = "failed" => tasks[t].status = "failed"

\* C38: the cursor of the port search never decreases, and every port a
\* search returns lies in the configured range (8001..8999 in the code,
\* FirstPort..RangeEnd - 1 here).
C38_PortsInRange ==
    [][/\ next_port' >= next_port
       /\ \A t \in Leasing :
             tasks'[t].port \in FirstPort..(RangeEnd - 1)]_vars

\* In the step a deploy of id i returns success, a teardown of id i
\* succeeds, some teardown fails at the stop, some deploy fails.
DeploySucceeds(i) ==
    \E t \in Tasks :
        /\ tasks'[t].kind = "gen" /\ tasks'[t].id = i
        /\ tasks[t].deploy # "success" /\ tasks'[t].deploy = "success"
TeardownSucceeds(i) ==
    \E t \in Tasks :
        /\ tasks[t].kind = "none"
        /\ tasks'[t].kind = "del" /\ tasks'[t].id = i
        /\ tasks'[t].stop = "ok"
TeardownFails ==
    \E t \in Tasks :
        /\ tasks[t].kind = "none"
        /\ tasks'[t].kind = "del" /\ tasks'[t].stop = "error"
DeployFails ==
    \E t \in Tasks :
        tasks[t].deploy # "failed" /\ tasks'[t].deploy = "failed"

\* C39: an id is in deployed_containers exactly when a deploy of it has
\* returned success and no teardown of it has succeeded since: an id enters
\* the table only in the step in which a deploy of it returns success, and
\* leaves it only in the step in which a teardown of it succeeds; a
\* teardown whose stop fails and a deploy that fails leave the table as it
\* is.
C39_TableTracksDeploys ==
    [][/\ \A i \in Ids :
             /\ DeploySucceeds(i) => i \in DOMAIN deployed_containers'
             /\ TeardownSucceeds(i) => i \notin DOMAIN deployed_containers'
             /\ (i \in DOMAIN deployed_containers'
                   /\ i \notin DOMAIN deployed_containers)
                     => DeploySucceeds(i)
             /\ (i \in DOMAIN deployed_containers
                   /\ i \notin DOMAIN deployed_containers')
                     => TeardownSucceeds(i)
       /\ (TeardownFails \/ DeployFails) =>
             deployed_containers' = deployed_containers]_vars

\* A teardown has failed at the stop and the id is still in the table.
C39_Witness ==
    \E t \in DelTasks :
        /\ tasks[t].stop = "error"
        /\ tasks[t].id \in DOMAIN deployed_containers
====
